---------------------------- MODULE Spec2Model ----------------------------
(***************************************************************************)
(* Model of fomod/validator/warnings.py: check_warnings, _WarningElement,  *)
(* _ElementLog and _log_warnings.                                          *)
(*                                                                         *)
(* A parsed tree is the sequence produced by elem_root.iter(): the root    *)
(* followed by its descendants in document order.  An element is a record  *)
(* with its tag, its "source" and "path" attributes (None when absent),    *)
(* its sourceline and its position in the document (object identity).     *)
(* A Python string built by += is a sequence of tokens; str(n) is          *)
(* ToString(n).  Python's None for a tree or a tag_log is the empty        *)
(* sequence <<>>; a present tag_log is the one-element sequence <<log>>.   *)
(***************************************************************************)
EXTENDS Integers, Sequences, FiniteSets, TLC

VARIABLES elem_tree, descriptor, pc, config_root, element_list, result,
          outcome, payload, located

vars == <<elem_tree, descriptor, pc, config_root, element_list, result,
          outcome, payload, located>>

(* Longest tree (number of elements, root included) that is enumerated.   *)
MaxLen == 3

None == "None"

NoTree == <<>>

(***************************************************************************)
(* The package on disk: package_path holds a directory "d" and a regular   *)
(* file "f"; nothing is called "m".                                        *)
(***************************************************************************)
package_path == "pkg"

PackageDirs == {<<"pkg", "d">>}

PackageFiles == {<<"pkg", "f">>}

AttrValues == {None, "d", "f", "m"}

join(a, b) == <<a, b>>

isdir(p) == p \in PackageDirs

isfile(p) == p \in PackageFiles

(* os.path.join raises TypeError when a component is None. *)
JoinRaises(b) == b = None

(***************************************************************************)
(* The four rules of element_list, in declaration order.                   *)
(***************************************************************************)
RepeatedTags == {"moduleName", "moduleImage", "moduleDependencies",
                 "requiredInstallFiles", "installSteps",
                 "conditionalFileInstalls"}

FolderTags == {"folder"}

FileTags == {"file"}

ImageTags == {"moduleImage", "image"}

Rules ==
  << [tags |-> RepeatedTags, title |-> "Repeated Elements", arity |-> 2,
      attr |-> None,
      msg |-> <<"The tag ", "{}",
                " has several occurrences, this may produce unexpected results.">>],
     [tags |-> FolderTags, title |-> "Missing Source Folders", arity |-> 1,
      attr |-> "source",
      msg |-> <<"These source folders weren't found inside the package. ",
                "The installers ignore this so be sure to fix it.">>],
     [tags |-> FileTags, title |-> "Missing Source Files", arity |-> 1,
      attr |-> "source",
      msg |-> <<"These source files weren't found inside the package. ",
                "The installers ignore this so be sure to fix it.">>],
     [tags |-> ImageTags, title |-> "Missing Images", arity |-> 1,
      attr |-> "path",
      msg |-> <<"These images weren't found inside the package. ",
                "The installers ignore this so be sure to fix it.">>] >>

RuleIds == DOMAIN Rules

(* elem.get(name): the attribute's value, None when the attribute is absent. *)
Get(elem, name) == IF name = "source" THEN elem.source ELSE elem.path

(* lambda elem, x: sum(1 for value in x if value.tag == elem.tag) >= 2 *)
RepeatedCondition(elem, x) ==
  Cardinality({k \in DOMAIN x : x[k].tag = elem.tag}) >= 2

MissingFolderConditionInverted(elem) == isdir(join(package_path, Get(elem, "source")))

(* lambda elem: not isdir(join(package_path, elem.get("source"))) *)
MissingFolderCondition(elem) == ~ isdir(join(package_path, Get(elem, "source")))

(* lambda elem: not isfile(join(package_path, elem.get("source"))) *)
MissingFileCondition(elem) == ~ isfile(join(package_path, Get(elem, "source")))

(* lambda elem: not isfile(join(package_path, elem.get("path"))) *)
MissingImageCondition(elem) == ~ isfile(join(package_path, Get(elem, "path")))

(***************************************************************************)
(* signature(condition).parameters == 2 compares the mapping of the        *)
(* callable's parameters with the integer 2: a mapping never equals an     *)
(* integer, whatever the number of parameters.                             *)
(***************************************************************************)
ParametersEqualTwo(i) == FALSE

(***************************************************************************)
(* Calling rule i's condition with nargs positional arguments.  A lambda   *)
(* called with the wrong number of arguments raises TypeError, and so     *)
(* does join() on an absent attribute.                                     *)
(***************************************************************************)
CallCondition(i, nargs, elem, tag_list) ==
  IF Rules[i].arity # nargs
    THEN [raised |-> TRUE, value |-> FALSE]
    ELSE IF i = 1
      THEN [raised |-> FALSE, value |-> RepeatedCondition(elem, tag_list)]
      ELSE IF JoinRaises(Get(elem, Rules[i].attr))
        THEN [raised |-> TRUE, value |-> FALSE]
        ELSE [raised |-> FALSE,
              value |-> CASE i = 2 -> MissingFolderCondition(elem)
                          [] i = 3 -> MissingFileCondition(elem)
                          [] OTHER -> MissingImageCondition(elem)]

(* The body of the loop over tag_list in _WarningElement.__init__. *)
Evaluate(i, elem, tag_list) ==
  IF ParametersEqualTwo(i)
    THEN CallCondition(i, 2, elem, tag_list)
    ELSE CallCondition(i, 1, elem, tag_list)


(***************************************************************************)
(* _ElementLog.__init__: the flagged elements grouped by tag.  The dict    *)
(* self.elements keeps its keys in insertion order, so it is a sequence    *)
(* of [tag, elems] entries; self.msgs maps each tag to the message with    *)
(* "{}" replaced by the tag.                                               *)
(***************************************************************************)
Replace(msg, tag) == [k \in DOMAIN msg |-> IF msg[k] = "{}" THEN tag ELSE msg[k]]

KeyIndex(d, tag) == {k \in DOMAIN d : d[k].tag = tag}

AddElementFirst(d, elem_) ==
  IF KeyIndex(d, elem_.tag) = {}
    THEN Append(d, [tag |-> elem_.tag, elems |-> <<elem_>>])
    ELSE LET k == CHOOSE j \in KeyIndex(d, elem_.tag) : TRUE
         IN  [d EXCEPT ![k].elems = <<elem_>> \o @]

(* One iteration of the first loop of _ElementLog.__init__. *)
AddElement(d, elem_) ==
  IF KeyIndex(d, elem_.tag) = {}
    THEN Append(d, [tag |-> elem_.tag, elems |-> <<elem_>>])
    ELSE LET k == CHOOSE j \in KeyIndex(d, elem_.tag) : TRUE
         IN  [d EXCEPT ![k].elems = Append(@, elem_)]

RECURSIVE GroupByTag(_, _)
GroupByTag(elements, n) ==
  IF n = 0 THEN <<>> ELSE AddElement(GroupByTag(elements, n - 1), elements[n])

ElementLog(elements, title, msg) ==
  [elements |-> GroupByTag(elements, Len(elements)),
   title    |-> title,
   msgs     |-> [t \in {elements[k].tag : k \in DOMAIN elements} |-> Replace(msg, t)]]

(***************************************************************************)
(* _WarningElement.__init__ for rule i: tag_list collects the elements of  *)
(* elem_root.iter() whose tag is in the rule's tags, tag_result those the  *)
(* condition accepts.  The constructor raises when a call of the condition *)
(* raises; otherwise tag_log is an _ElementLog, or None when tag_result    *)
(* is empty.                                                               *)
(***************************************************************************)
TagList(elem_root, i) ==
  SelectSeq(elem_root, LAMBDA element : element.tag \in Rules[i].tags)

TagResult(elem_root, i) ==
  LET tag_list == TagList(elem_root, i)
  IN  SelectSeq(tag_list, LAMBDA elem : Evaluate(i, elem, tag_list).value)

WarningElementAlwaysLogs(elem_root, i) ==
  LET tag_list == TagList(elem_root, i)
      tag_result == TagResult(elem_root, i)
  IN  [raised  |-> \E k \in DOMAIN tag_list : Evaluate(i, tag_list[k], tag_list).raised,
       tag_log |-> <<ElementLog(tag_result, Rules[i].title, Rules[i].msg)>>]

WarningElement(elem_root, i) ==
  LET tag_list == TagList(elem_root, i)
      tag_result == TagResult(elem_root, i)
  IN  [raised  |-> \E k \in DOMAIN tag_list : Evaluate(i, tag_list[k], tag_list).raised,
       tag_log |-> IF tag_result # <<>>
                     THEN <<ElementLog(tag_result, Rules[i].title, Rules[i].msg)>>
                     ELSE <<>>]

(***************************************************************************)
(* _log_warnings: the report, as the sequence of the pieces appended to    *)
(* result.  result[:-1] removes the last character, which is the comma     *)
(* that follows the last line number.                                      *)
(***************************************************************************)
StripLast(r) ==
  IF r[Len(r)] = "," THEN SubSeq(r, 1, Len(r) - 1)
  ELSE Append(SubSeq(r, 1, Len(r) - 1), "Line")

RECURSIVE LogLines(_, _, _)
LogLines(r, elems, n) ==
  IF n = 0 THEN r
  ELSE LogLines(r, elems, n - 1) \o <<" ", ToString(elems[n].sourceline), ",">>

RECURSIVE LogTags(_, _, _)
LogTags(r, log, n) ==
  IF n = 0 THEN r
  ELSE LET before == LogTags(r, log, n - 1)
           entry == log.elements[n]
       IN  StripLast(LogLines(Append(before, "Lines"), entry.elems, Len(entry.elems)))
             \o <<": ">> \o log.msgs[entry.tag] \o <<"<br>">>

RECURSIVE LogWarningsUpTo(_, _)
LogWarningsUpTo(list_, n) ==
  IF n = 0 THEN <<>>
  ELSE LET before == LogWarningsUpTo(list_, n - 1)
       IN  IF list_[n] # <<>>
             THEN LET log == list_[n][1]
                  IN  LogTags(before \o <<"<i>", log.title, "</i><br><br>">>,
                              log, Len(log.elements)) \o <<"<br><br>">>
             ELSE before

LogWarnings(list_) == LogWarningsUpTo(list_, Len(list_))

(***************************************************************************)
(* The except clauses of check_warnings: MissingFolderError and            *)
(* MissingFileError are re-raised, etree.ParseError becomes ParserError,   *)
(* anything else is not caught and leaves check_warnings as it is.         *)
(***************************************************************************)
ExceptClausesSwallow(exc) ==
  CASE exc \in {"MissingFolderError", "MissingFileError"} -> "returned"
    [] exc = "ParseError" -> "ParserError"
    [] OTHER -> exc

ExceptClauses(exc) ==
  CASE exc \in {"MissingFolderError", "MissingFileError"} -> exc
    [] exc = "ParseError" -> "ParserError"
    [] OTHER -> exc

(* "not elem_tree": None is false, and so is an element without children. *)
Falsy(tree) == tree = NoTree \/ Len(tree) = 1


(***************************************************************************)
(* The trees that are enumerated.  Only folder and file elements carry a   *)
(* source attribute and only moduleImage and image elements a path         *)
(* attribute; either may be absent, or name the directory, the regular     *)
(* file or nothing.  The root is on line 1; either the whole document is   *)
(* on that line or every element starts a line of its own.                 *)
(***************************************************************************)
InputTags == {"config", "moduleName", "moduleImage", "folder", "file", "image"}

SourceValues(tag) == IF tag \in {"folder", "file"} THEN AttrValues ELSE {None}

PathValues(tag) == IF tag \in {"moduleImage", "image"} THEN AttrValues ELSE {None}

ElementKinds ==
  {k \in [tag : InputTags, source : AttrValues, path : AttrValues] :
     /\ k.source \in SourceValues(k.tag)
     /\ k.path \in PathValues(k.tag)}

MakeTree(kinds, oneline) ==
  [n \in DOMAIN kinds |->
     [tag |-> kinds[n].tag, source |-> kinds[n].source, path |-> kinds[n].path,
      sourceline |-> IF oneline THEN 1 ELSE n, pos |-> n]]

(* The descriptor found on disk when a tree is supplied by the caller. *)
DescriptorOnDisk ==
  MakeTree(<<[tag |-> "config", source |-> None, path |-> None],
             [tag |-> "folder", source |-> "m", path |-> None]>>, FALSE)

NoDescriptor == {[kind |-> k, tree |-> NoTree] :
                   k \in {"nofolder", "nofile", "malformed"}}

(***************************************************************************)
(* A call of check_warnings: the caller supplies no tree and the package   *)
(* holds no readable descriptor; or it supplies no tree and the descriptor *)
(* parses to a tree t; or it supplies t itself, whatever the package       *)
(* holds.                                                                  *)
(***************************************************************************)
Descriptors(tree) ==
  IF Len(tree) = 1
    THEN NoDescriptor \cup {[kind |-> "ok", tree |-> DescriptorOnDisk]}
    ELSE {[kind |-> "nofolder", tree |-> NoTree],
          [kind |-> "ok", tree |-> DescriptorOnDisk]}

InitCall ==
  \/ /\ elem_tree = NoTree
     /\ descriptor \in NoDescriptor
  \/ \E n \in 1..MaxLen, oneline \in BOOLEAN :
       \E kinds \in [1..n -> ElementKinds] :
         LET t == MakeTree(kinds, oneline)
         IN  \/ /\ elem_tree = NoTree
                /\ descriptor = [kind |-> "ok", tree |-> t]
             \/ /\ elem_tree = t
                /\ descriptor \in Descriptors(t)

Init ==
  /\ InitCall
  /\ pc = "start"
  /\ config_root = NoTree
  /\ element_list = <<>>
  /\ result = <<>>
  /\ outcome = "running"
  /\ payload = <<>>
  /\ located = FALSE

(* An exception leaves the try block through the except clauses. *)
Raise(exc) ==
  /\ outcome' = ExceptClauses(exc)
  /\ pc' = "done"

(* check_fomod(package_path) raises MissingFolderError. *)
check_fomod_raises == descriptor.kind = "nofolder"

(* check_file(join(package_path, fomod_folder)) raises MissingFileError. *)
check_file_raises == descriptor.kind = "nofile"

(* etree.parse(...) raises etree.ParseError. *)
parse_raises == descriptor.kind = "malformed"

(***************************************************************************)
(* Lines 30-35: the tree the rules are run on.                             *)
(***************************************************************************)
UseElemTree ==
  /\ pc = "start"
  /\ ~ Falsy(elem_tree)
  /\ config_root' = elem_tree
  /\ pc' = "rules"
  /\ UNCHANGED <<elem_tree, descriptor, element_list, result, outcome, payload, located>>

CheckFomodRaises ==
  /\ pc = "start"
  /\ Falsy(elem_tree)
  /\ check_fomod_raises
  /\ located' = TRUE
  /\ Raise("MissingFolderError")
  /\ UNCHANGED <<elem_tree, descriptor, config_root, element_list, result, payload>>

CheckFileRaises ==
  /\ pc = "start"
  /\ Falsy(elem_tree)
  /\ ~ check_fomod_raises
  /\ check_file_raises
  /\ located' = TRUE
  /\ Raise("MissingFileError")
  /\ UNCHANGED <<elem_tree, descriptor, config_root, element_list, result, payload>>

ParseRaises ==
  /\ pc = "start"
  /\ Falsy(elem_tree)
  /\ ~ check_fomod_raises
  /\ ~ check_file_raises
  /\ parse_raises
  /\ located' = TRUE
  /\ Raise("ParseError")
  /\ UNCHANGED <<elem_tree, descriptor, config_root, element_list, result, payload>>

ParseDescriptor ==
  /\ pc = "start"
  /\ Falsy(elem_tree)
  /\ ~ check_fomod_raises
  /\ ~ check_file_raises
  /\ ~ parse_raises
  /\ located' = TRUE
  /\ config_root' = descriptor.tree
  /\ pc' = "rules"
  /\ UNCHANGED <<elem_tree, descriptor, element_list, result, outcome, payload>>

(***************************************************************************)
(* Lines 37-60: the next _WarningElement of element_list is constructed.   *)
(***************************************************************************)
BuildWarningElement ==
  /\ pc = "rules"
  /\ LET i == Len(element_list) + 1
         warn == WarningElement(config_root, i)
     IN  /\ ~ warn.raised
         /\ element_list' = Append(element_list, warn.tag_log)
         /\ pc' = IF i = Len(Rules) THEN "render" ELSE "rules"
  /\ UNCHANGED <<elem_tree, descriptor, config_root, result, outcome, payload, located>>

BuildWarningElementRaises ==
  /\ pc = "rules"
  /\ WarningElement(config_root, Len(element_list) + 1).raised
  /\ Raise("TypeError")
  /\ UNCHANGED <<elem_tree, descriptor, config_root, element_list, result, payload, located>>

(***************************************************************************)
(* Lines 62-69: the tag_logs are rendered; a non-empty result is raised    *)
(* as WarningError(result), an empty one lets check_warnings return.       *)
(***************************************************************************)
RaiseWarningError ==
  /\ pc = "render"
  /\ LET log_list == element_list
     IN  /\ LogWarnings(log_list) # <<>>
         /\ result' = LogWarnings(log_list)
         /\ payload' = LogWarnings(log_list)
  /\ Raise("WarningError")
  /\ UNCHANGED <<elem_tree, descriptor, config_root, element_list, located>>

ReturnNone ==
  /\ pc = "render"
  /\ LET log_list == element_list
     IN  /\ LogWarnings(log_list) = <<>>
         /\ result' = LogWarnings(log_list)
  /\ outcome' = "returned"
  /\ pc' = "done"
  /\ UNCHANGED <<elem_tree, descriptor, config_root, element_list, payload, located>>

Next ==
  \/ UseElemTree
  \/ CheckFomodRaises
  \/ CheckFileRaises
  \/ ParseRaises
  \/ ParseDescriptor
  \/ BuildWarningElement
  \/ BuildWarningElementRaises
  \/ RaiseWarningError
  \/ ReturnNone

Spec == Init /\ [][Next]_vars


(***************************************************************************)
(* Vocabulary of the properties.                                           *)
(***************************************************************************)
Done == pc = "done"

(* The tree the rules were run on has been resolved. *)
Resolved == config_root # NoTree

Elements == {config_root[k] : k \in DOMAIN config_root}

CountTag(tag) == Cardinality({k \in DOMAIN config_root : config_root[k].tag = tag})

(* The rule whose Missing ... finding is about an element with this tag. *)
MissingRule(tag) ==
  CASE tag = "folder" -> 2
    [] tag = "file" -> 3
    [] OTHER -> 4

ReferenceTags == FolderTags \cup FileTags \cup ImageTags

(* The attribute that refers to the package: source or path. *)
Reference(e) == IF e.tag \in ImageTags THEN e.path ELSE e.source

(* The reference names a directory (folder) or a regular file (otherwise). *)
ExistsAsRequired(e) ==
  /\ Reference(e) # None
  /\ IF e.tag = "folder" THEN <<package_path, Reference(e)>> \in PackageDirs
                         ELSE <<package_path, Reference(e)>> \in PackageFiles

(* Rule i was evaluated and yielded a Finding. *)
HasFinding(i) == i <= Len(element_list) /\ element_list[i] # <<>>

(* The elements held by the Finding of rule i. *)
FindingElements(i) ==
  IF HasFinding(i)
    THEN LET d == element_list[i][1].elements
         IN  UNION {{d[g].elems[k] : k \in DOMAIN d[g].elems} : g \in DOMAIN d}
    ELSE {}

(* e is one of the entries of the Finding of rule i. *)
Listed(i, e) == \E f \in FindingElements(i) : f.pos = e.pos

(***************************************************************************)
(* Reading a report back: a title follows "<i>", a line number follows     *)
(* " ", a tag group starts at "Lines" and a section ends at "<br><br>".    *)
(***************************************************************************)
TitlePositions(r) == {k \in DOMAIN r : k > 1 /\ r[k - 1] = "<i>"}

LinePositions(r) == {k \in DOMAIN r : k > 1 /\ r[k - 1] = " "}

GroupPositions(r) == {k \in DOMAIN r : r[k] = "Lines"}

Last(S) == CHOOSE k \in S : \A j \in S : j <= k

(* The title of the section position k lies in. *)
TitleAt(r, k) == r[Last({j \in TitlePositions(r) : j < k})]

(* The line numbers printed in the section with this title. *)
SectionLines(r, title) ==
  {r[k] : k \in {j \in LinePositions(r) : TitleAt(r, j) = title}}

RECURSIVE Enumerate(_)
Enumerate(S) ==
  IF S = {} THEN <<>>
  ELSE LET k == Last(S) IN Append(Enumerate(S \ {k}), k)

(* The titles of the report, in the order in which they are printed. *)
ReportTitles(r) ==
  LET at == Enumerate(TitlePositions(r)) IN [k \in DOMAIN at |-> r[at[k]]]

(* The line numbers of the tag group that starts at position g. *)
GroupLines(r, g) ==
  LET at == Enumerate({k \in LinePositions(r) :
                         k > g /\ \A h \in GroupPositions(r) : h > g => k < h})
  IN  [k \in DOMAIN at |-> r[at[k]]]

(* The tag groups of the report, each the sequence of its line numbers. *)
ReportGroups(r) ==
  LET at == Enumerate(GroupPositions(r)) IN [k \in DOMAIN at |-> GroupLines(r, at[k])]


(* The predicate of rule i, as the rule is described, holds of e. *)
Positive(i, e) == IF i = 1 THEN CountTag(e.tag) >= 2 ELSE ~ ExistsAsRequired(e)

(* The matched elements of rule i of which its predicate holds. *)
Flagged(i) == {e \in Elements : e.tag \in Rules[i].tags /\ Positive(i, e)}

(* The tree check_warnings was called on: supplied, or parsed from disk. *)
CallTree == IF elem_tree # NoTree THEN elem_tree ELSE descriptor.tree

AllRuleTags == UNION {Rules[i].tags : i \in RuleIds}

RECURSIVE FindingGroups(_)
(* The tag groups of the first n tag_logs, in order. *)
FindingGroups(n) ==
  IF n = 0 THEN <<>>
  ELSE FindingGroups(n - 1) \o
         (IF element_list[n] # <<>> THEN element_list[n][1].elements ELSE <<>>)

(***************************************************************************)
(* C1: an element with a tag of the repeated-elements set is in the        *)
(* Repeated Elements finding exactly when two or more elements share its   *)
(* tag; when every such tag occurs once and everything referenced exists,  *)
(* check_warnings returns without a report.                                *)
(***************************************************************************)
C1_RepeatedElementsListed ==
  (Done /\ Resolved) =>
    /\ \A e \in Elements :
         e.tag \in RepeatedTags => (Listed(1, e) <=> CountTag(e.tag) >= 2)
    /\ ( /\ \A e \in Elements : e.tag \in RepeatedTags => CountTag(e.tag) = 1
         /\ \A e \in Elements : e.tag \in ReferenceTags => ExistsAsRequired(e) )
       => (outcome = "returned" /\ payload = <<>>)

(***************************************************************************)
(* C2: every folder, file, moduleImage or image element whose reference    *)
(* does not exist as the required kind makes check_warnings end in         *)
(* WarningError, and the section of its rule lists its line number.        *)
(***************************************************************************)
C2_MissingReferenceReported ==
  (Done /\ Resolved) =>
    \A e \in Elements :
      (e.tag \in ReferenceTags /\ Reference(e) # None /\ ~ ExistsAsRequired(e)) =>
        /\ outcome = "WarningError"
        /\ ToString(e.sourceline) \in
             SectionLines(payload, Rules[MissingRule(e.tag)].title)

(***************************************************************************)
(* C3, as stated: the line number of a folder, file or image element whose *)
(* reference exists appears in none of the Missing ... sections.           *)
(***************************************************************************)
C3_LineInNoMissingSection ==
  (Done /\ Resolved) =>
    \A e \in Elements :
      (e.tag \in {"folder", "file", "image"} /\ ExistsAsRequired(e)) =>
        \A i \in RuleIds \ {1} :
          ToString(e.sourceline) \notin SectionLines(payload, Rules[i].title)

(***************************************************************************)
(* C3, amended: a folder, file or image element whose reference exists is  *)
(* an entry of no Finding, and its line number is printed in a section     *)
(* only for another element of that Finding that is on the same line.      *)
(***************************************************************************)
C3_ExistingNotListed ==
  \A e \in Elements :
    (e.tag \in {"folder", "file", "image"} /\ ExistsAsRequired(e)) =>
      \A i \in RuleIds :
        /\ ~ Listed(i, e)
        /\ (Done /\ ToString(e.sourceline) \in SectionLines(payload, Rules[i].title))
             => \E f \in FindingElements(i) :
                  f.pos # e.pos /\ f.sourceline = e.sourceline

C3_Witness ==
  /\ Done
  /\ outcome = "WarningError"
  /\ \E e \in Elements :
       /\ e.tag = "folder"
       /\ ExistsAsRequired(e)
       /\ ToString(e.sourceline) \in SectionLines(payload, "Missing Source Folders")

(***************************************************************************)
(* C4: on a tree none of whose elements, the root included, has a tag of   *)
(* any rule, check_warnings returns without a report and without error.    *)
(***************************************************************************)
C4_NoMatchReturns ==
  (Done /\ CallTree # NoTree /\ \A k \in DOMAIN CallTree : CallTree[k].tag \notin AllRuleTags)
    => (outcome = "returned" /\ payload = <<>>)

(***************************************************************************)
(* C5: in a report the sections are in rule-declaration order and only     *)
(* the rules that fired have one; in a Finding the tag groups are in the   *)
(* order in which their tags were first seen; in a tag group the line      *)
(* numbers are in document order of the flagged elements.                  *)
(***************************************************************************)
C5_ReportOrder ==
  (Done /\ outcome = "WarningError") =>
    /\ LET fired == Enumerate({i \in RuleIds : Flagged(i) # {}})
       IN  ReportTitles(payload) = [k \in DOMAIN fired |-> Rules[fired[k]].title]
    /\ \A i \in DOMAIN element_list :
         element_list[i] # <<>> =>
           LET d == element_list[i][1].elements
           IN  /\ \A g, h \in DOMAIN d : g < h => d[g].elems[1].pos < d[h].elems[1].pos
               /\ \A g \in DOMAIN d : \A j, k \in DOMAIN d[g].elems :
                    j < k => d[g].elems[j].pos < d[g].elems[k].pos
    /\ LET groups == FindingGroups(Len(element_list))
       IN  ReportGroups(payload) =
             [g \in DOMAIN groups |->
                [k \in DOMAIN groups[g].elems |-> ToString(groups[g].elems[k].sourceline)]]

C5_Witness ==
  /\ Done
  /\ outcome = "WarningError"
  /\ Len(ReportTitles(payload)) >= 2
  /\ \E g \in DOMAIN ReportGroups(payload) :
       /\ Len(ReportGroups(payload)[g]) >= 2
       /\ ReportGroups(payload)[g][1] # ReportGroups(payload)[g][2]

(***************************************************************************)
(* C6: once the tree is resolved, check_warnings ends in WarningError      *)
(* exactly when a rule produced a Finding, with the rendered report as     *)
(* payload, and returns without payload otherwise; rule evaluation and     *)
(* rendering produce no other outcome.                                     *)
(***************************************************************************)
C6_WarningErrorIffFinding ==
  (Done /\ Resolved) =>
    /\ outcome \in {"WarningError", "returned"}
    /\ outcome = "WarningError" <=> \E i \in RuleIds : HasFinding(i)
    /\ outcome = "WarningError" => (payload = result /\ payload # <<>>)
    /\ outcome = "returned" => payload = <<>>

(***************************************************************************)
(* C7: a folder or file element without source, or a moduleImage or image  *)
(* element without path, is flagged in the finding of its rule, and the    *)
(* run ends in WarningError and in no other error.                         *)
(***************************************************************************)
C7_MissingAttributeFlagged ==
  (Done /\ Resolved) =>
    \A e \in Elements :
      (e.tag \in ReferenceTags /\ Reference(e) = None) =>
        /\ outcome = "WarningError"
        /\ Listed(MissingRule(e.tag), e)

(***************************************************************************)
(* C8: called without a tree, when the descriptor folder or the            *)
(* descriptor file is absent, check_warnings ends with that                *)
(* MissingFolderError or MissingFileError: no rule is evaluated and no     *)
(* report is rendered.                                                     *)
(***************************************************************************)
C8_LocatorErrorPropagates ==
  (Done /\ elem_tree = NoTree /\ descriptor.kind \in {"nofolder", "nofile"}) =>
    /\ outcome = IF descriptor.kind = "nofolder" THEN "MissingFolderError"
                                                 ELSE "MissingFileError"
    /\ config_root = NoTree
    /\ element_list = <<>>
    /\ result = <<>>
    /\ payload = <<>>

C8_Witness ==
  /\ Done
  /\ elem_tree = NoTree
  /\ descriptor.kind = "nofile"
  /\ located
  /\ outcome = "MissingFileError"

(***************************************************************************)
(* C9: when a tree is supplied, a root without children included, the      *)
(* descriptor is neither located nor parsed, the rules run on the          *)
(* supplied tree, and no MissingFolderError, MissingFileError or           *)
(* ParserError results.                                                    *)
(***************************************************************************)
C9_SuppliedTreeUsed ==
  elem_tree # NoTree =>
    /\ ~ located
    /\ Resolved => config_root = elem_tree
    /\ outcome \notin {"MissingFolderError", "MissingFileError", "ParserError"}

=============================================================================
